---------------------------- MODULE Spec2Model ----------------------------
(***************************************************************************)
(* Model of the control loop of "Raspberry Pi/airhockey.py" (main_loop):   *)
(* position filter, trajectory prediction, hit / aggressive mode state     *)
(* machine and command encoder.                                            *)
(*                                                                         *)
(* Units.  Positions are integers in thirds of a pixel (3 units = 1 px),   *)
(* so that the smoothing 0.3*raw + 0.7*smoothed is exact on the inputs the *)
(* model draws.  Clock readings are integers in seconds.                   *)
(* Every other float of the program (intercept times, targets) is an exact *)
(* rational <<n, d>> with d > 0 in lowest terms.  None is <<>>.            *)
(***************************************************************************)
EXTENDS Integers, Sequences, FiniteSets, TLC

None == <<>>

\* ------------------------------------------------------------ rationals
Abs(i) == IF i < 0 THEN -i ELSE i

RECURSIVE GCD(_, _)
GCD(a, b) == IF b = 0 THEN a ELSE GCD(b, a % b)

Norm(n, d) ==
    LET s == IF d < 0 THEN -1 ELSE 1
        g == GCD(Abs(n), Abs(d))
    IN  <<(s * n) \div g, (s * d) \div g>>

R(i) == <<i, 1>>
RNeg(a) == <<-a[1], a[2]>>
RAdd(a, b) ==
    LET g == GCD(a[2], b[2])
        l == (a[2] \div g) * b[2]
    IN  Norm(a[1] * (l \div a[2]) + b[1] * (l \div b[2]), l)
RSub(a, b) == RAdd(a, RNeg(b))
RMul(a, b) ==
    LET g1 == GCD(Abs(a[1]), b[2])
        g2 == GCD(Abs(b[1]), a[2])
    IN  Norm((a[1] \div g1) * (b[1] \div g2), (a[2] \div g2) * (b[2] \div g1))
RDiv(a, b) == RMul(a, Norm(b[2], b[1]))
\* n1/d1 < n2/d2 for d1, d2 > 0, by integer parts and then the reciprocals of
\* the fractional parts, so that no product overflows
RECURSIVE Less(_, _, _, _)
Less(n1, d1, n2, d2) ==
    LET q1 == n1 \div d1
        q2 == n2 \div d2
        r1 == n1 % d1
        r2 == n2 % d2
    IN  IF q1 # q2 THEN q1 < q2
        ELSE IF r2 = 0 THEN FALSE
        ELSE IF r1 = 0 THEN TRUE
        ELSE Less(d2, r2, d1, r1)
RLt(a, b) == Less(a[1], a[2], b[1], b[2])
RLe(a, b) == ~RLt(b, a)
RAbs(a) == <<Abs(a[1]), a[2]>>
RMax(a, b) == IF RLt(a, b) THEN b ELSE a
RMin(a, b) == IF RLt(b, a) THEN b ELSE a
\* a variant of RTrunc that rounds a non-negative float up
RTruncUp(a) == (a[1] + a[2] - 1) \div a[2]

\* int() of a non-negative float
RTrunc(a) == a[1] \div a[2]

\* ------------------------------------------------------------ constants
\* table size loaded from the calibration file, 100 px x 100 px
TABLE_W == 300
TABLE_H == 300
\* SMOOTHING_ALPHA = 0.3 as the fraction ALPHA_NUM / ALPHA_DEN
ALPHA_NUM == 3
ALPHA_DEN == 10
\* VEL_THRESHOLD = 2.0 px per frame
VEL_THRESHOLD == 6
FRAME_RATE == 30
\* durations in seconds; the strike phase lasts 0.2 s = PHASE2_NUM / PHASE2_DEN
HIT_MODE_DURATION == 1
PUCK_IN_ROBOT_HALF_THRESHOLD == 1
PHASE1_DURATION == 1
PHASE2_NUM == 1
PHASE2_DEN == 5
FOLLOW_THROUGH_TIMEOUT == 10
\* controller coordinate range
SCALE_X == 2857
SCALE_Y == 4873
\* the guards 1e-3 and 1e-6 of the prediction code; a length or velocity v
\* in units is v/3 px
EPS3 == <<1, 1000>>
EPS6 == <<1, 1000000>>
PxR(v) == <<v, 3>>

\* y_target_normal = 0.2 * TABLE_H
y_target_normal == Norm(2 * TABLE_H, 10)
\* halfway_y = TABLE_H / 2.0
halfway_y == Norm(TABLE_H, 2)

\* ------------------------------------------------------------ prediction
reflect_vector(vx, vy, hit_wall) ==
    IF hit_wall \in {"left", "right"} THEN <<-vx, vy>>
    ELSE IF hit_wall \in {"top", "bottom"} THEN <<vx, -vy>>
    ELSE <<vx, vy>>

\* the candidate crossing of one wall, as a sequence of zero or one tuples
\* <<t, x_hit, y_hit, wall>>
LeftCand(x0, y0, vx, vy, W, H) ==
    IF vx < 0
    THEN LET t == Norm(0 - x0, vx)
             y_hit == RAdd(R(y0), RMul(t, R(vy)))
         IN  IF RLt(EPS6, t) /\ RLe(R(0), y_hit) /\ RLe(y_hit, R(H))
             THEN <<<<t, R(0), y_hit, "left">>>> ELSE <<>>
    ELSE <<>>
RightCand(x0, y0, vx, vy, W, H) ==
    IF vx > 0
    THEN LET t == Norm(W - x0, vx)
             y_hit == RAdd(R(y0), RMul(t, R(vy)))
         IN  IF RLt(EPS6, t) /\ RLe(R(0), y_hit) /\ RLe(y_hit, R(H))
             THEN <<<<t, R(W), y_hit, "right">>>> ELSE <<>>
    ELSE <<>>
TopCand(x0, y0, vx, vy, W, H) ==
    IF vy < 0
    THEN LET t == Norm(0 - y0, vy)
             x_hit == RAdd(R(x0), RMul(t, R(vx)))
         IN  IF RLt(EPS6, t) /\ RLe(R(0), x_hit) /\ RLe(x_hit, R(W))
             THEN <<<<t, x_hit, R(0), "top">>>> ELSE <<>>
    ELSE <<>>
BottomCand(x0, y0, vx, vy, W, H) ==
    IF vy > 0
    THEN LET t == Norm(H - y0, vy)
             x_hit == RAdd(R(x0), RMul(t, R(vx)))
         IN  IF RLt(EPS6, t) /\ RLe(R(0), x_hit) /\ RLe(x_hit, R(W))
             THEN <<<<t, x_hit, R(H), "bottom">>>> ELSE <<>>
    ELSE <<>>

\* a variant of MinByT that returns the last candidate of least t
RECURSIVE MinByTLast(_)
MinByTLast(cands) ==
    IF Len(cands) = 1 THEN cands[1]
    ELSE LET m == MinByTLast(Tail(cands))
         IN  IF RLt(cands[1][1], m[1]) THEN cands[1] ELSE m

\* min(candidates, key = t): the first candidate of least t
RECURSIVE MinByT(_)
MinByT(cands) ==
    IF Len(cands) = 1 THEN cands[1]
    ELSE LET m == MinByT(Tail(cands))
         IN  IF RLe(cands[1][1], m[1]) THEN cands[1] ELSE m

compute_first_bounce(x0, y0, vx, vy, W, H) ==
    LET candidates == LeftCand(x0, y0, vx, vy, W, H)
                      \o RightCand(x0, y0, vx, vy, W, H)
                      \o TopCand(x0, y0, vx, vy, W, H)
                      \o BottomCand(x0, y0, vx, vy, W, H)
    IN  IF candidates = <<>> THEN None ELSE MinByT(candidates)


\* abs(v) > 1e-3 for a velocity component v
AboveEps(v) == RLt(EPS3, RAbs(PxR(v)))

\* a variant of DirectTime that measures to the target line mirrored in the
\* top wall, y = -y_target
DirectTimeMirrored(y0, vy, yt) ==
    IF AboveEps(vy) THEN RDiv(RSub(RNeg(yt), R(y0)), R(vy)) ELSE None

\* t_direct = (y_target - y0) / vy, or None when vy is near zero
DirectTime(y0, vy, yt) ==
    IF AboveEps(vy) THEN RDiv(RSub(yt, R(y0)), R(vy)) ELSE None

\* a variant of NeedBounce that also takes a crossing at t_bounce = t_direct
NeedBounceAtOrBefore(fb, t_direct) ==
    /\ fb # None
    /\ t_direct # None
    /\ RLt(R(0), fb[1])
    /\ RLe(fb[1], t_direct)

NeedBounce(fb, t_direct) ==
    /\ fb # None
    /\ t_direct # None
    /\ RLt(R(0), fb[1])
    /\ RLt(fb[1], t_direct)

\* the reflected ray from the bounce point: <<t2, x1, vx2>>
AfterBounce(fb, vx, vy, yt) ==
    LET v2 == reflect_vector(vx, vy, fb[4])
        x1 == RAdd(fb[2], RMul(R(v2[1]), EPS3))
        y1 == RAdd(fb[3], RMul(R(v2[2]), EPS3))
        t2 == IF AboveEps(v2[2]) THEN RDiv(RSub(yt, y1), R(v2[2])) ELSE None
    IN  <<t2, x1, v2[1]>>

NoTarget == [x |-> None, tui |-> None]

\* the body of "if need_bounce:" of the two velocity predictions
BounceBranch(fb, x0, vx, vy, yt, t_direct) ==
    LET ab == AfterBounce(fb, vx, vy, yt)
        t2 == ab[1]
    IN  IF t2 # None /\ RLt(R(0), t2)
        THEN [x   |-> RAdd(ab[2], RMul(R(ab[3]), t2)),
              tui |-> RDiv(RAdd(fb[1], t2), R(FRAME_RATE))]
        ELSE IF t_direct # None /\ RLt(R(0), t_direct)
             THEN [x   |-> RAdd(R(x0), RMul(R(vx), t_direct)),
                   tui |-> RDiv(t_direct, R(FRAME_RATE))]
             ELSE NoTarget

\* the handle-to-puck vector prediction
HandleVectorPrediction(s, handle_raw, yt) ==
    LET x0 == s[1]
        y0 == s[2]
        vx_hp == x0 - handle_raw[1]
        vy_hp == y0 - handle_raw[2]
        t_direct == DirectTime(y0, vy_hp, yt)
        fb == compute_first_bounce(x0, y0, vx_hp, vy_hp, TABLE_W, TABLE_H)
    IN  IF NeedBounce(fb, t_direct)
        THEN LET ab == AfterBounce(fb, vx_hp, vy_hp, yt)
                 t2 == ab[1]
             IN  IF t2 # None /\ RLt(R(0), t2)
                 THEN [x |-> RAdd(ab[2], RMul(R(ab[3]), t2)), tui |-> None]
                 ELSE NoTarget
        ELSE IF t_direct # None
             THEN [x |-> RAdd(R(x0), RMul(R(vx_hp), t_direct)), tui |-> None]
             ELSE [x |-> R(x0), tui |-> None]

SpeedAboveThreshold(vx, vy) == vx * vx + vy * vy > VEL_THRESHOLD * VEL_THRESHOLD

\* the "if handle_present:" branch
HandleBranch(s, vx, vy, handle_raw, yt) ==
    IF SpeedAboveThreshold(vx, vy)
    THEN LET fb == compute_first_bounce(s[1], s[2], vx, vy, TABLE_W, TABLE_H)
             t_direct == DirectTime(s[2], vy, yt)
         IN  IF NeedBounce(fb, t_direct)
             THEN BounceBranch(fb, s[1], vx, vy, yt, t_direct)
             ELSE HandleVectorPrediction(s, handle_raw, yt)
    ELSE NoTarget

\* a variant of the puck-only branch that, at or below the speed threshold,
\* targets the puck's own x instead of producing no target
PuckOnlyBranchNeverIdle(s, vx, vy, yt) ==
    IF SpeedAboveThreshold(vx, vy)
    THEN LET fb == compute_first_bounce(s[1], s[2], vx, vy, TABLE_W, TABLE_H)
             t_direct == DirectTime(s[2], vy, yt)
         IN  IF NeedBounce(fb, t_direct)
             THEN BounceBranch(fb, s[1], vx, vy, yt, t_direct)
             ELSE NoTarget
    ELSE [x |-> R(s[1]), tui |-> None]

\* the puck-only branch
PuckOnlyBranch(s, vx, vy, yt) ==
    IF SpeedAboveThreshold(vx, vy)
    THEN LET fb == compute_first_bounce(s[1], s[2], vx, vy, TABLE_W, TABLE_H)
             t_direct == DirectTime(s[2], vy, yt)
         IN  IF NeedBounce(fb, t_direct)
             THEN BounceBranch(fb, s[1], vx, vy, yt, t_direct)
             ELSE NoTarget
    ELSE NoTarget

\* ------------------------------------------------------------ filter
\* a variant of SmoothCoord with the two weights exchanged
SmoothCoordSwapped(raw, sm) ==
    ((ALPHA_DEN - ALPHA_NUM) * raw + ALPHA_NUM * sm) \div ALPHA_DEN

\* alpha * raw + (1 - alpha) * smoothed, one coordinate; the model draws raw
\* so that the division is exact
SmoothCoord(raw, sm) ==
    (ALPHA_NUM * raw + (ALPHA_DEN - ALPHA_NUM) * sm) \div ALPHA_DEN
SmoothExact(raw, sm) ==
    (ALPHA_NUM * raw + (ALPHA_DEN - ALPHA_NUM) * sm) % ALPHA_DEN = 0

Smooth(puck_raw, sm) ==
    IF sm = None THEN puck_raw
    ELSE <<SmoothCoord(puck_raw[1], sm[1]), SmoothCoord(puck_raw[2], sm[2])>>

\* a variant of Velocity that measures the displacement from the origin
VelocityFromOrigin(sm, prev) == <<sm[1], sm[2]>>

Velocity(sm, prev) ==
    IF prev # None THEN <<sm[1] - prev[1], sm[2] - prev[2]>> ELSE <<0, 0>>

\* two centroids: the one of smaller y is the puck, the other the handle
Classify(c0, c1) ==
    IF c0[2] < c1[2] THEN [puck |-> c0, handle |-> c1]
    ELSE [puck |-> c1, handle |-> c0]

\* ------------------------------------------------------------ mode machine
(***************************************************************************)
(* The mutable locals of main_loop that the mode machine reads and writes, *)
(* as one record c:                                                        *)
(*   pih, pih_start       puck_in_robot_half, puck_in_robot_half_start_time*)
(*   active               aggressive_mode_active                           *)
(*   phase, phase_start   aggressive_phase, aggressive_phase_start_time    *)
(*   crossed              puck_crossed_midline                             *)
(*   lsx, lsy             last_strike_x_target, last_strike_y_target       *)
(*   yt                   y_target                                         *)
(*   hit, hit_start       hit_mode_active, hit_mode_start_time             *)
(*   x, tui               x_target, time_until_impact                      *)
(*   crashed              an uncaught exception ended the program          *)
(***************************************************************************)

\* "Track if puck crosses midline during follow-through"
TrackCrossing(c, s) ==
    IF c.active /\ c.phase = 3 /\ RLt(halfway_y, R(s[2]))
    THEN [c EXCEPT !.crossed = TRUE] ELSE c

\* a variant of DwellUpdate that activates without recording the phase start
DwellUpdateStaleStart(c, s, t) ==
    IF RLt(R(s[2]), halfway_y)
    THEN IF ~c.pih
         THEN [c EXCEPT !.pih = TRUE, !.pih_start = t, !.crossed = FALSE]
         ELSE IF ~c.active /\ t - c.pih_start > PUCK_IN_ROBOT_HALF_THRESHOLD
              THEN [c EXCEPT !.active = TRUE, !.phase = 1, !.crossed = FALSE]
              ELSE c
    ELSE [c EXCEPT !.pih = FALSE]

\* "Monitor puck position relative to table center": the dwell timer and
\* the activation of aggressive mode
DwellUpdate(c, s, t) ==
    IF RLt(R(s[2]), halfway_y)
    THEN IF ~c.pih
         THEN [c EXCEPT !.pih = TRUE, !.pih_start = t, !.crossed = FALSE]
         ELSE IF ~c.active /\ t - c.pih_start > PUCK_IN_ROBOT_HALF_THRESHOLD
              THEN [c EXCEPT !.active = TRUE, !.phase = 1,
                             !.phase_start = t, !.crossed = FALSE]
              ELSE c
    ELSE [c EXCEPT !.pih = FALSE]

\* a variant of PhaseTransitions whose exit from follow-through leaves the
\* active flag set
PhaseTransitionsStayActive(c, t) ==
    IF c.phase = 1 /\ t - c.phase_start > PHASE1_DURATION
    THEN [c EXCEPT !.phase = 2, !.phase_start = t]
    ELSE IF c.phase = 2 /\ PHASE2_DEN * (t - c.phase_start) > PHASE2_NUM
    THEN [c EXCEPT !.phase = 3, !.phase_start = t, !.crossed = FALSE]
    ELSE IF c.phase = 3
            /\ (c.crossed \/ t - c.phase_start > FOLLOW_THROUGH_TIMEOUT)
    THEN [c EXCEPT !.phase = 0, !.yt = y_target_normal]
    ELSE c

\* a variant of PhaseTransitions whose exit from follow-through keeps the
\* strike line as y_target
PhaseTransitionsKeepLine(c, t) ==
    IF c.phase = 1 /\ t - c.phase_start > PHASE1_DURATION
    THEN [c EXCEPT !.phase = 2, !.phase_start = t]
    ELSE IF c.phase = 2 /\ PHASE2_DEN * (t - c.phase_start) > PHASE2_NUM
    THEN [c EXCEPT !.phase = 3, !.phase_start = t, !.crossed = FALSE]
    ELSE IF c.phase = 3
            /\ (c.crossed \/ t - c.phase_start > FOLLOW_THROUGH_TIMEOUT)
    THEN [c EXCEPT !.active = FALSE, !.phase = 0]
    ELSE c

\* a variant of PhaseTransitions that goes from positioning straight to
\* follow-through
PhaseTransitionsSkipStrike(c, t) ==
    IF c.phase = 1 /\ t - c.phase_start > PHASE1_DURATION
    THEN [c EXCEPT !.phase = 3, !.phase_start = t, !.crossed = FALSE]
    ELSE IF c.phase = 2 /\ PHASE2_DEN * (t - c.phase_start) > PHASE2_NUM
    THEN [c EXCEPT !.phase = 3, !.phase_start = t, !.crossed = FALSE]
    ELSE IF c.phase = 3
            /\ (c.crossed \/ t - c.phase_start > FOLLOW_THROUGH_TIMEOUT)
    THEN [c EXCEPT !.active = FALSE, !.phase = 0, !.yt = y_target_normal]
    ELSE c

\* a variant of PhaseTransitions whose exit from follow-through clears the
\* dwell flag
PhaseTransitionsResetDwell(c, t) ==
    IF c.phase = 1 /\ t - c.phase_start > PHASE1_DURATION
    THEN [c EXCEPT !.phase = 2, !.phase_start = t]
    ELSE IF c.phase = 2 /\ PHASE2_DEN * (t - c.phase_start) > PHASE2_NUM
    THEN [c EXCEPT !.phase = 3, !.phase_start = t, !.crossed = FALSE]
    ELSE IF c.phase = 3
            /\ (c.crossed \/ t - c.phase_start > FOLLOW_THROUGH_TIMEOUT)
    THEN [c EXCEPT !.active = FALSE, !.phase = 0, !.yt = y_target_normal,
                   !.pih = FALSE]
    ELSE c

\* a variant of PhaseTransitions that leaves phase 1 as soon as the phase-1
\* duration is reached (>= instead of >)
PhaseTransitionsEarly(c, t) ==
    IF c.phase = 1 /\ t - c.phase_start >= PHASE1_DURATION
    THEN [c EXCEPT !.phase = 2, !.phase_start = t]
    ELSE IF c.phase = 2 /\ PHASE2_DEN * (t - c.phase_start) > PHASE2_NUM
    THEN [c EXCEPT !.phase = 3, !.phase_start = t, !.crossed = FALSE]
    ELSE IF c.phase = 3
            /\ (c.crossed \/ t - c.phase_start > FOLLOW_THROUGH_TIMEOUT)
    THEN [c EXCEPT !.active = FALSE, !.phase = 0, !.yt = y_target_normal]
    ELSE c

\* "Aggressive mode phase transitions"
PhaseTransitions(c, t) ==
    IF c.phase = 1 /\ t - c.phase_start > PHASE1_DURATION
    THEN [c EXCEPT !.phase = 2, !.phase_start = t]
    ELSE IF c.phase = 2 /\ PHASE2_DEN * (t - c.phase_start) > PHASE2_NUM
    THEN [c EXCEPT !.phase = 3, !.phase_start = t, !.crossed = FALSE]
    ELSE IF c.phase = 3
            /\ (c.crossed \/ t - c.phase_start > FOLLOW_THROUGH_TIMEOUT)
    THEN [c EXCEPT !.active = FALSE, !.phase = 0, !.yt = y_target_normal]
    ELSE c

Clamp(v, lo, hi) == RMax(lo, RMin(v, hi))

\* where the line from the puck along the puck-to-goal vector g meets the
\* horizontal line y = line_y.  The code normalises g to n = g / |g| and
\* computes t = (line_y - puck_y) / n_y, puck + n * t; |g| cancels, so
\* with u = (line_y - puck_y) / g_y the point is puck + g * u.
AlongGoalVector(s, gx, gy, line_y) ==
    LET u == RDiv(RSub(line_y, R(s[2])), gy)
    IN  <<RAdd(R(s[1]), RMul(gx, u)), RAdd(R(s[2]), RMul(gy, u))>>

\* the phase target of the override block, for phase 1, 2 or 3
PhaseTarget(c, s, gx, gy, len2) ==
    LET steep == RLt(RMul(EPS6, len2), RMul(gy, gy))  \* abs(norm_vector_y) > 1e-3
    IN  IF c.phase = 1
        THEN IF steep
             THEN [c EXCEPT !.x = Clamp(AlongGoalVector(s, gx, gy, y_target_normal)[1],
                                        R(0), R(TABLE_W)),
                            !.tui = None]
             ELSE [c EXCEPT !.x = R(s[1]), !.tui = None]
        ELSE IF c.phase = 2
        THEN IF steep
             THEN LET p == AlongGoalVector(s, gx, gy, halfway_y)
                      xt == Clamp(p[1], R(0), R(TABLE_W))
                      strike_y_target == Clamp(p[2], R(0), R(TABLE_H))
                  IN  [c EXCEPT !.x = xt, !.tui = <<1, 5>>,
                                !.lsx = xt, !.lsy = strike_y_target]
             ELSE [c EXCEPT !.x = Norm(TABLE_W, 2), !.tui = <<1, 5>>,
                            !.lsx = Norm(TABLE_W, 2), !.lsy = halfway_y]
        ELSE IF c.phase = 3 /\ c.lsx # None
        THEN [c EXCEPT !.x = c.lsx, !.yt = c.lsy, !.tui = None]
        ELSE c

\* "Override normal prediction with aggressive behavior"; drawing the target
\* raises TypeError when x_target is still None
AggressiveOverride(c, s) ==
    LET gx == RSub(Norm(TABLE_W, 2), R(s[1]))
        gy == RSub(R(TABLE_H), R(s[2]))
        len2 == RAdd(RMul(gx, gx), RMul(gy, gy))
    IN  IF RLt(<<9, 1000000>>, len2)               \* vector_length > 1e-3 px
        THEN LET d == PhaseTarget(c, s, gx, gy, len2)
             IN  IF d.x = None THEN [d EXCEPT !.crashed = TRUE]
                 ELSE [d EXCEPT !.hit = FALSE]
        ELSE c

\* a variant of AggressiveMachine that runs whenever a puck position is
\* known, the handle in view or not
AggressiveMachineAlways(c, puck_present, s, t) ==
    IF s # None
    THEN LET c1 == DwellUpdate(TrackCrossing(c, s), s, t)
         IN  IF c1.active
             THEN LET c2 == PhaseTransitions(c1, t)
                  IN  IF c2.active
                      THEN AggressiveOverride(c2, s) ELSE c2
             ELSE c1
    ELSE c

\* the whole block "if puck_present and smoothed_puck:"
AggressiveMachine(c, puck_present, s, t) ==
    IF puck_present /\ s # None
    THEN LET c1 == DwellUpdate(TrackCrossing(c, s), s, t)
         IN  IF c1.active
             THEN LET c2 == PhaseTransitions(c1, t)
                  IN  IF c2.active /\ puck_present
                      THEN AggressiveOverride(c2, s) ELSE c2
             ELSE c1
    ELSE c

\* ------------------------------------------------------------ hit mode, encoder
HitTrigger(c, puck_present, s) ==
    \/ c.tui # None /\ RLt(c.tui, <<2, 5>>)
    \/ /\ puck_present
       /\ s # None
       /\ RLt(RAbs(RSub(R(s[2]), c.yt)), Norm(15 * TABLE_H, 100))

\* "Hit mode state management": trigger, then expiry
HitUpdate(c, puck_present, s, t) ==
    LET c1 == IF HitTrigger(c, puck_present, s)
              THEN [c EXCEPT !.hit = TRUE, !.hit_start = t] ELSE c
    IN  IF c1.hit /\ t - c1.hit_start > HIT_MODE_DURATION
        THEN [c1 EXCEPT !.hit = FALSE] ELSE c1

\* a variant of HitOffset without the forward bias
HitOffsetNone(in_hit_mode) == R(0)

\* y_target_adder
HitOffset(in_hit_mode) == IF in_hit_mode THEN Norm(5 * TABLE_H, 100) ELSE R(0)

\* a variant of Percent without the clamp to [0,1]
PercentUnclamped(v, size) == RDiv(v, R(size))

Percent(v, size) == RMin(RMax(RDiv(v, R(size)), R(0)), R(1))

Digits4(n) == <<(n \div 1000) % 10, (n \div 100) % 10, (n \div 10) % 10, n % 10>>

\* a variant of Message that ends the frame with LF alone, as the loopback
\* script test_serial.py does
MessageLF(scaled_x, scaled_y) ==
    <<"M">> \o Digits4(scaled_x) \o Digits4(scaled_y) \o <<"\n">>

\* msg = f"M{scaled_x:04d}{scaled_y:04d}\r\n" (at most 4 digits each here)
Message(scaled_x, scaled_y) ==
    <<"M">> \o Digits4(scaled_x) \o Digits4(scaled_y) \o <<"\r", "\n">>

\* the command of the frame: the target before normalisation, the scaled
\* coordinates and the message
Encode(c) ==
    LET in_hit_mode == c.hit
        y_target_adder == HitOffset(in_hit_mode)
        percent_x == Percent(c.x, TABLE_W)
        percent_y == Percent(RAdd(c.yt, y_target_adder), TABLE_H)
        scaled_x == RTrunc(RMul(percent_x, R(SCALE_X)))
        scaled_y == RTrunc(RMul(percent_y, R(SCALE_Y)))
    IN  [x |-> c.x, y |-> RAdd(c.yt, y_target_adder), in_hit_mode |-> in_hit_mode,
         scaled_x |-> scaled_x, scaled_y |-> scaled_y,
         msg |-> Message(scaled_x, scaled_y)]

\* ------------------------------------------------------------ state
VARIABLES
    pc,                             \* "start", "run", "done" or "crashed"; "predict",
                                    \* "predicted", "sent" when one frame's prediction
                                    \* is run alone; "filter" for the filter alone
    ser,                            \* "unopened", "open", "none" (open failed), "closed"
    now,                            \* time.time() as read by the latest frame
    smoothed_puck, prev_smoothed_puck,
    handle_present, puck_present,
    x_target, time_until_impact, y_target,
    hit_mode_active, hit_mode_start_time,
    puck_in_robot_half, puck_in_robot_half_start_time,
    aggressive_mode_active,
    aggressive_phase, aggressive_phase_start_time,
    last_strike_x_target, last_strike_y_target,
    puck_crossed_midline,           \* (aggressive_mode_start_time is written, never read)
    command,                        \* the command encoded in the latest frame, or None
    written,                        \* the bytes that frame wrote to the serial port
    filter_raw, filter_velocity,    \* puck_raw and (vx, vy) of the latest filter update,
                                    \* recorded where the filter is run alone; in the
                                    \* loop they are locals of one iteration, dead at
                                    \* its end, and stay None
    handle_raw,                     \* the handle centroid of a frame with two objects,
                                    \* recorded where the prediction is run alone;
                                    \* likewise None in the loop
    q_key                           \* the 'q' key in the window's event queue: "none",
                                    \* "pressed" (not yet read by cv2.waitKey), or
                                    \* "overdue" (pressed, and an iteration has ended
                                    \* since without reading it)

vars == <<pc, ser, now, smoothed_puck, prev_smoothed_puck, handle_present,
          puck_present, x_target, time_until_impact, y_target, hit_mode_active,
          hit_mode_start_time, puck_in_robot_half, puck_in_robot_half_start_time,
          aggressive_mode_active, aggressive_phase,
          aggressive_phase_start_time, last_strike_x_target, last_strike_y_target,
          puck_crossed_midline, command, written,
               filter_raw, filter_velocity, handle_raw, q_key>>

\* ------------------------------------------------------------ bounds, inputs
\* no iteration begins once the clock has reached MaxTime seconds
MaxTime == 8
\* the time between two loop iterations, in seconds
DtSet == {1, 10}
\* the smoothed puck positions the model visits (units of 1/3 px)
Grid == {<<30, 141>>, <<30, 150>>, <<21, 138>>, <<21, 99>>, <<21, 180>>}
\* where the detector may see the handle
HandleSet == {<<150, 270>>}
\* how many of the 11 bytes ser.write accepts before it raises (11: no error)
WriteOutcomes == {5, 11}

InTable(p) == p[1] >= 0 /\ p[1] <= TABLE_W /\ p[2] >= 0 /\ p[2] <= TABLE_H

\* the raw puck centroids drawn for a frame: any grid point for the first
\* detection, afterwards the table points that smooth onto a grid point
RawFor(g, sm) ==
    <<sm[1] + ((g[1] - sm[1]) * ALPHA_DEN) \div ALPHA_NUM,
      sm[2] + ((g[2] - sm[2]) * ALPHA_DEN) \div ALPHA_NUM>>
RawPuck(sm) ==
    IF sm = None THEN Grid
    ELSE {r \in {RawFor(g, sm) : g \in Grid} :
            /\ InTable(r)
            /\ SmoothExact(r[1], sm[1]) /\ SmoothExact(r[2], sm[2])
            /\ Smooth(r, sm) \in Grid}

\* what the detector yields: no contour, one contour, or two contours c0, c1.
\* (Two contours of which one has no centroid are handled by the code as one.)
NoObservation == [n |-> 0, puck |-> None, handle |-> None]
OneObject(c) == [n |-> 1, puck |-> c, handle |-> None]
TwoObjects(c0, c1) ==
    LET cl == Classify(c0, c1) IN [n |-> 2, puck |-> cl.puck, handle |-> cl.handle]
Observations(sm) ==
    LET raw == RawPuck(sm)
    IN  {NoObservation}
        \cup {OneObject(c) : c \in raw}
        \cup {o \in {TwoObjects(c0, c1) : c0 \in raw \cup HandleSet,
                                          c1 \in raw \cup HandleSet} :
                o.puck \in raw /\ o.handle \in HandleSet}

\* ------------------------------------------------------------ actions
Init ==
    /\ pc = "start"
    /\ ser = "unopened"
    /\ now = 0
    /\ smoothed_puck = None
    /\ prev_smoothed_puck = None
    /\ handle_present = FALSE
    /\ puck_present = FALSE
    /\ x_target = None
    /\ time_until_impact = None
    /\ y_target = y_target_normal
    /\ hit_mode_active = FALSE
    /\ hit_mode_start_time = 0
    /\ puck_in_robot_half = FALSE
    /\ puck_in_robot_half_start_time = 0
    /\ aggressive_mode_active = FALSE
    /\ aggressive_phase = 0
    /\ aggressive_phase_start_time = 0
    /\ last_strike_x_target = None
    /\ last_strike_y_target = None
    /\ puck_crossed_midline = FALSE
    /\ command = None
    /\ written = <<>>
    /\ filter_raw = None
    /\ filter_velocity = None
    /\ handle_raw = None
    /\ q_key = "none"

loop_vars == <<now, smoothed_puck, prev_smoothed_puck, handle_present,
               puck_present, x_target, time_until_impact, y_target, hit_mode_active,
               hit_mode_start_time, puck_in_robot_half, puck_in_robot_half_start_time,
               aggressive_mode_active, aggressive_phase,
               aggressive_phase_start_time, last_strike_x_target, last_strike_y_target,
               puck_crossed_midline, command, written,
               filter_raw, filter_velocity, handle_raw, q_key>>

loop_vars_no_key == <<now, smoothed_puck, prev_smoothed_puck, handle_present,
                      puck_present, x_target, time_until_impact, y_target,
                      hit_mode_active, hit_mode_start_time, puck_in_robot_half,
                      puck_in_robot_half_start_time, aggressive_mode_active,
                      aggressive_phase, aggressive_phase_start_time,
                      last_strike_x_target, last_strike_y_target,
                      puck_crossed_midline, command, written,
                      filter_raw, filter_velocity, handle_raw>>

\* main_loop up to "while True": calibration files, serial port, camera
Startup ==
    /\ pc = "start"
    /\ \E calibrated \in BOOLEAN, serial_ok \in BOOLEAN, camera_ok \in BOOLEAN :
          IF ~calibrated
          THEN pc' = "done" /\ ser' = ser
          ELSE /\ ser' = IF serial_ok THEN "open" ELSE "none"
               /\ pc' = IF camera_ok THEN "run" ELSE "done"
    /\ UNCHANGED loop_vars

\* the mode-machine record of the current state, with the frame's primary
\* prediction as x_target and time_until_impact
Context(primary) ==
    [pih |-> puck_in_robot_half, pih_start |-> puck_in_robot_half_start_time,
     active |-> aggressive_mode_active,
     phase |-> aggressive_phase, phase_start |-> aggressive_phase_start_time,
     crossed |-> puck_crossed_midline,
     lsx |-> last_strike_x_target, lsy |-> last_strike_y_target,
     yt |-> y_target, hit |-> hit_mode_active, hit_start |-> hit_mode_start_time,
     x |-> primary.x, tui |-> primary.tui, crashed |-> FALSE]

\* a variant of Detect that keeps the previous frame's target when nothing
\* is observed
DetectStaleTarget(obs, sm0, prev, yt) ==
    IF obs.n = 0 THEN <<sm0, [x |-> x_target, tui |-> time_until_impact]>>
    ELSE LET sm == Smooth(obs.puck, sm0)
             v  == Velocity(sm, prev)
         IN  <<sm, IF obs.n = 2
                   THEN HandleBranch(sm, v[1], v[2], obs.handle, yt)
                   ELSE PuckOnlyBranch(sm, v[1], v[2], yt)>>

\* a variant of Detect that forgets the smoothed position when nothing is
\* observed
DetectForgetful(obs, sm0, prev, yt) ==
    IF obs.n = 0 THEN <<None, NoTarget>>
    ELSE LET sm == Smooth(obs.puck, sm0)
             v  == Velocity(sm, prev)
         IN  <<sm, IF obs.n = 2
                   THEN HandleBranch(sm, v[1], v[2], obs.handle, yt)
                   ELSE PuckOnlyBranch(sm, v[1], v[2], yt)>>

\* detection, smoothing, velocity and the primary prediction of a frame
\* with observation obs: <<smoothed_puck, primary>>
Detect(obs, sm0, prev, yt) ==
    IF obs.n = 0 THEN <<sm0, NoTarget>>
    ELSE LET sm == Smooth(obs.puck, sm0)
             v  == Velocity(sm, prev)
         IN  <<sm, IF obs.n = 2
                   THEN HandleBranch(sm, v[1], v[2], obs.handle, yt)
                   ELSE PuckOnlyBranch(sm, v[1], v[2], yt)>>

\* the command is sent "if x_target is not None and ser is not None"
Sends(c) == c.x # None /\ ser = "open" /\ ~c.crashed

\* a variant of Decide that runs the hit-mode management in every frame
DecideAlwaysHit(obs, sm, primary, t) ==
    LET c1 == AggressiveMachine(Context(primary), obs.n = 1, sm, t)
    IN  HitUpdate(c1, obs.n = 1, sm, t)

\* the rest of the iteration at time t: mode machine, hit mode, encoder
Decide(obs, sm, primary, t) ==
    LET c1 == AggressiveMachine(Context(primary), obs.n = 1, sm, t)
    IN  IF Sends(c1) THEN HitUpdate(c1, obs.n = 1, sm, t) ELSE c1

\* a variant of FrameStep in which a failed serial write ends the program
FrameStepFatal(t, obs, sm, c, cmd, k) ==
    /\ now' = t
    /\ smoothed_puck' = sm
    /\ prev_smoothed_puck' = IF obs.n >= 1 THEN sm ELSE prev_smoothed_puck
    /\ handle_present' = (obs.n = 2)
    /\ puck_present' = (obs.n = 1)
    /\ x_target' = c.x
    /\ time_until_impact' = c.tui
    /\ y_target' = c.yt
    /\ hit_mode_active' = c.hit
    /\ hit_mode_start_time' = c.hit_start
    /\ puck_in_robot_half' = c.pih
    /\ puck_in_robot_half_start_time' = c.pih_start
    /\ aggressive_mode_active' = c.active
    /\ aggressive_phase' = c.phase
    /\ aggressive_phase_start_time' = c.phase_start
    /\ last_strike_x_target' = c.lsx
    /\ last_strike_y_target' = c.lsy
    /\ puck_crossed_midline' = c.crossed
    /\ command' = cmd
    /\ written' = IF cmd # None THEN SubSeq(cmd.msg, 1, k) ELSE <<>>
    /\ UNCHANGED <<filter_raw, filter_velocity, handle_raw, q_key>>
    /\ pc' = IF c.crashed \/ (cmd # None /\ k < Len(cmd.msg)) THEN "crashed" ELSE "run"
    /\ ser' = ser

\* one iteration of the loop that reads a frame, at time t, with the
\* detector's observation obs; the serial port accepts k bytes
FrameStep(t, obs, sm, c, cmd, k) ==
    /\ now' = t
    /\ smoothed_puck' = sm
    /\ prev_smoothed_puck' = IF obs.n >= 1 THEN sm ELSE prev_smoothed_puck
    /\ handle_present' = (obs.n = 2)
    /\ puck_present' = (obs.n = 1)
    /\ x_target' = c.x
    /\ time_until_impact' = c.tui
    /\ y_target' = c.yt
    /\ hit_mode_active' = c.hit
    /\ hit_mode_start_time' = c.hit_start
    /\ puck_in_robot_half' = c.pih
    /\ puck_in_robot_half_start_time' = c.pih_start
    /\ aggressive_mode_active' = c.active
    /\ aggressive_phase' = c.phase
    /\ aggressive_phase_start_time' = c.phase_start
    /\ last_strike_x_target' = c.lsx
    /\ last_strike_y_target' = c.lsy
    /\ puck_crossed_midline' = c.crossed
    /\ command' = cmd
    /\ written' = IF cmd # None THEN SubSeq(cmd.msg, 1, k) ELSE <<>>
    /\ UNCHANGED <<filter_raw, filter_velocity, handle_raw, q_key>>
    /\ pc' = IF c.crashed THEN "crashed" ELSE "run"
    /\ ser' = ser

Frame ==
    /\ pc = "run"
    /\ \E obs \in Observations(smoothed_puck) :
       \E d \in {Detect(obs, smoothed_puck, prev_smoothed_puck, y_target)} :
       \E dt \in DtSet :
          /\ now < MaxTime
          /\ \E c \in {Decide(obs, d[1], d[2], now + dt)} :
             \E cmd \in {IF Sends(c) THEN Encode(c) ELSE None} :
             \E k \in IF cmd # None THEN WriteOutcomes ELSE {0} :
                FrameStep(now + dt, obs, d[1], c, cmd, k)

\* cap.read() fails: "continue", nothing but the unused loop_start changes
FrameDropped ==
    /\ pc = "run"
    /\ UNCHANGED vars

\* the 'q' key, read at the end of an iteration that read a frame: the loop
\* is left, the port closed; the locals of main_loop are gone, so the state
\* does not tell which frame the key followed
Locals(t) ==
    /\ now' = t
    /\ smoothed_puck' = None
    /\ prev_smoothed_puck' = None
    /\ handle_present' = FALSE
    /\ puck_present' = FALSE
    /\ x_target' = None
    /\ time_until_impact' = None
    /\ y_target' = y_target_normal
    /\ hit_mode_active' = FALSE
    /\ hit_mode_start_time' = 0
    /\ puck_in_robot_half' = FALSE
    /\ puck_in_robot_half_start_time' = 0
    /\ aggressive_mode_active' = FALSE
    /\ aggressive_phase' = 0
    /\ aggressive_phase_start_time' = 0
    /\ last_strike_x_target' = None
    /\ last_strike_y_target' = None
    /\ puck_crossed_midline' = FALSE
    /\ command' = None
    /\ written' = <<>>
    /\ UNCHANGED <<filter_raw, filter_velocity, handle_raw>>

Quit ==
    /\ pc = "run"
    /\ pc' = "done"
    /\ ser' = IF ser = "open" THEN "closed" ELSE ser
    /\ Locals(0)
    /\ UNCHANGED q_key

Next == Startup \/ Frame \/ FrameDropped \/ Quit

Spec == Init /\ [][Next]_vars

\* ------------------------------------------------------------ the predictor alone
\* puck positions and per-frame displacements (units of 1/3 px) for which the
\* velocity prediction is evaluated on its own
\* the last origin and velocity put the left wall 1/1023 of a frame before the
\* target line, closer than the 1e-3 offset applied after a bounce
OriginSet == {<<x, y>> : x \in {21, 30, 150, 279}, y \in {99, 150, 240}}
                 \cup {<<15, 76>>}
VelocitySet == {<<vx, vy>> : vx \in {-30, -15, -10, 0, 9}, vy \in {-30, -12, 0, 12}}
                   \cup {<<-31, -33>>}
\* where the handle may be when the prediction is run alone: also level
\* with a puck of OriginSet, so that the handle-to-puck vector is horizontal
PredictHandles == HandleSet \cup {<<150, 240>>}

\* a frame boundary with a tracked puck at origin o that moved by v in the
\* latest frame, normal target line, no aggressive mode
PredictInit ==
    /\ pc = "predict"
    /\ ser = "open"
    /\ now = 0
    /\ \E o \in OriginSet, v \in VelocitySet :
          /\ InTable(<<o[1] - v[1], o[2] - v[2]>>)
          /\ smoothed_puck = o
          /\ prev_smoothed_puck = <<o[1] - v[1], o[2] - v[2]>>
    /\ handle_present = FALSE
    /\ puck_present = FALSE
    /\ x_target = None
    /\ time_until_impact = None
    /\ y_target = y_target_normal
    /\ hit_mode_active = FALSE
    /\ hit_mode_start_time = 0
    /\ puck_in_robot_half = FALSE
    /\ puck_in_robot_half_start_time = 0
    /\ aggressive_mode_active = FALSE
    /\ aggressive_phase = 0
    /\ aggressive_phase_start_time = 0
    /\ last_strike_x_target = None
    /\ last_strike_y_target = None
    /\ puck_crossed_midline = FALSE
    /\ command = None
    /\ written = <<>>
    /\ filter_raw = None
    /\ filter_velocity = None
    /\ handle_raw = None
    /\ q_key = "none"

\* the prediction of a frame in which only the puck is tracked; the state
\* keeps the inputs (smoothed_puck, prev_smoothed_puck) next to the outputs
PredictPuckOnly ==
    /\ pc = "predict"
    /\ \E v \in {Velocity(smoothed_puck, prev_smoothed_puck)} :
       \E r \in {PuckOnlyBranch(smoothed_puck, v[1], v[2], y_target)} :
          /\ x_target' = r.x
          /\ time_until_impact' = r.tui
    /\ puck_present' = TRUE
    /\ handle_present' = FALSE
    /\ pc' = "predicted"
    /\ UNCHANGED <<ser, now, smoothed_puck, prev_smoothed_puck, y_target,
                   hit_mode_active, hit_mode_start_time, puck_in_robot_half,
                   puck_in_robot_half_start_time, aggressive_mode_active,
                   aggressive_phase, aggressive_phase_start_time,
                   last_strike_x_target, last_strike_y_target,
                   puck_crossed_midline, command, written,
               filter_raw, filter_velocity, handle_raw, q_key>>

\* the prediction of a frame in which puck and handle are tracked
PredictWithHandle ==
    /\ pc = "predict"
    /\ \E h \in PredictHandles :
       \E v \in {Velocity(smoothed_puck, prev_smoothed_puck)} :
       \E r \in {HandleBranch(smoothed_puck, v[1], v[2], h, y_target)} :
          /\ handle_raw' = h
          /\ x_target' = r.x
          /\ time_until_impact' = r.tui
    /\ puck_present' = FALSE
    /\ handle_present' = TRUE
    /\ pc' = "predicted"
    /\ UNCHANGED <<ser, now, smoothed_puck, prev_smoothed_puck, y_target,
                   hit_mode_active, hit_mode_start_time, puck_in_robot_half,
                   puck_in_robot_half_start_time, aggressive_mode_active,
                   aggressive_phase, aggressive_phase_start_time,
                   last_strike_x_target, last_strike_y_target,
                   puck_crossed_midline, command, written,
               filter_raw, filter_velocity, q_key>>

\* the rest of that frame when it has a target: mode machine, hit mode,
\* encoder and serial write
PredictSend ==
    /\ pc = "predicted"
    /\ x_target # None
    /\ ser = "open"
    /\ \E obs \in {[n |-> IF puck_present THEN 1 ELSE 2]} :
       \E c \in {Decide(obs, smoothed_puck,
                        [x |-> x_target, tui |-> time_until_impact], now)} :
       \E cmd \in {IF Sends(c) THEN Encode(c) ELSE None} :
       \E k \in IF cmd # None THEN WriteOutcomes ELSE {0} :
          /\ x_target' = c.x
          /\ time_until_impact' = c.tui
          /\ y_target' = c.yt
          /\ hit_mode_active' = c.hit
          /\ hit_mode_start_time' = c.hit_start
          /\ puck_in_robot_half' = c.pih
          /\ puck_in_robot_half_start_time' = c.pih_start
          /\ aggressive_mode_active' = c.active
          /\ aggressive_phase' = c.phase
          /\ aggressive_phase_start_time' = c.phase_start
          /\ last_strike_x_target' = c.lsx
          /\ last_strike_y_target' = c.lsy
          /\ puck_crossed_midline' = c.crossed
          /\ command' = cmd
          /\ written' = IF cmd # None THEN SubSeq(cmd.msg, 1, k) ELSE <<>>
    /\ pc' = "sent"
    /\ UNCHANGED <<ser, now, smoothed_puck, prev_smoothed_puck, handle_present,
                   puck_present, filter_raw, filter_velocity, handle_raw, q_key>>

PredictNext == PredictPuckOnly \/ PredictWithHandle \/ PredictSend

PredictSpec == PredictInit /\ [][PredictNext]_vars

\* ------------------------------------------------------------ properties
\* the mode shown for the state at the end of a frame
mode_text ==
    IF aggressive_mode_active
    THEN IF aggressive_phase = 1 THEN "Aggressive-Position"
         ELSE IF aggressive_phase = 2 THEN "Aggressive-Strike"
         ELSE "Aggressive-Follow"
    ELSE IF hit_mode_active THEN "Hit"
    ELSE "Predict"

\* a step that is one iteration of the loop with a frame read (each such
\* iteration reads a later clock value)
FrameTaken == pc = "run" /\ pc' = "run" /\ now' > now

\* the puck is the only object of the frame that has just been processed
\* and lies in the robot's half / beyond the half-line
SolePuckInRobotHalf == puck_present /\ RLt(R(smoothed_puck[2]), halfway_y)
SolePuckPastHalfLine == puck_present /\ RLt(halfway_y, R(smoothed_puck[2]))

\* C1 (as stated): at every frame boundary the mode is Hit only within
\* HIT_MODE_DURATION of the most recent trigger, whatever frames followed
\* the trigger; afterwards it has reverted to Predict.
C1_HitModeLastsExactlyDuration ==
    (pc = "run" /\ mode_text = "Hit")
        => now - hit_mode_start_time <= HIT_MODE_DURATION

C3_DwellResetOnCrossing ==
    (pc = "run" /\ puck_in_robot_half)
        => (smoothed_puck # None /\ RLt(R(smoothed_puck[2]), halfway_y))

C5_FollowExitOnCrossing ==
    [][(FrameTaken /\ aggressive_phase = 3 /\ SolePuckPastHalfLine')
        => ( /\ puck_crossed_midline'
             /\ ~aggressive_mode_active'
             /\ aggressive_phase' = 0
             /\ y_target' = y_target_normal
             /\ mode_text' = "Predict" )]_vars

\* C6 (as stated): at no frame boundary is the machine in Aggressive-Follow
\* with more than FOLLOW_THROUGH_TIMEOUT elapsed since the phase-3 start.
C6_FollowTimeout ==
    (pc = "run" /\ aggressive_phase = 3)
        => now - aggressive_phase_start_time <= FOLLOW_THROUGH_TIMEOUT

\* the x target of the aggressive phase of the current state, for the
\* tracked puck position
AggressiveTargetX ==
    LET gx == RSub(Norm(TABLE_W, 2), R(smoothed_puck[1]))
        gy == RSub(R(TABLE_H), R(smoothed_puck[2]))
        len2 == RAdd(RMul(gx, gx), RMul(gy, gy))
    IN  PhaseTarget(Context(NoTarget), smoothed_puck, gx, gy, len2).x

\* C7 (as stated): in every frame that ends with an aggressive phase active
\* and sends a command, the commanded x is the target of the aggressive
\* phase, not the frame's primary prediction.
C7_AggressiveOverridesTarget ==
    (pc = "run" /\ aggressive_mode_active /\ command # None)
        => command.x = AggressiveTargetX

\* C8 (as stated): in every frame that ends with an aggressive phase active
\* and sends a command, the hit flag is false when the command is encoded
\* and the command carries no hit-mode y offset.
C8_NoHitWhileAggressive ==
    (pc = "run" /\ aggressive_mode_active /\ command # None)
        => (~command.in_hit_mode /\ command.y = y_target)

\* C9 (as stated): in every frame of phase 3 that sends a command, the
\* commanded position before normalisation is last_strike_target.
C9_FollowHoldsStrikeTarget ==
    (pc = "run" /\ aggressive_phase = 3 /\ command # None)
        => ( /\ command.x = last_strike_x_target
             /\ command.y = last_strike_y_target )

\* the puck's ray reaches the target line at a positive t_direct, above the
\* speed threshold, with no wall crossing before it
DirectPathCase(s, v, yt) ==
    /\ SpeedAboveThreshold(v[1], v[2])
    /\ LET t_direct == DirectTime(s[2], v[2], yt)
           fb == compute_first_bounce(s[1], s[2], v[1], v[2], TABLE_W, TABLE_H)
       IN  /\ t_direct # None
           /\ RLt(R(0), t_direct)
           /\ (fb = None \/ RLe(t_direct, fb[1]))

\* C10 (as stated): whenever the ray reaches the target line directly, the
\* prediction (puck only, or puck and handle) is origin + t_direct * velocity
\* with time_until_impact = t_direct / FRAME_RATE.
C10_DirectPath ==
    pc = "predicted" =>
        LET v == Velocity(smoothed_puck, prev_smoothed_puck)
            t_direct == DirectTime(smoothed_puck[2], v[2], y_target)
        IN  DirectPathCase(smoothed_puck, v, y_target)
            => ( /\ x_target = RAdd(R(smoothed_puck[1]), RMul(R(v[1]), t_direct))
                 /\ time_until_impact = RDiv(t_direct, R(FRAME_RATE)) )


\* the side wall the puck moves towards and the time at which its ray
\* crosses it (vx # 0)
SideWallX(vx) == IF vx < 0 THEN 0 ELSE TABLE_W
SideWallTag(vx) == IF vx < 0 THEN "left" ELSE "right"
SideWallTime(s, v) == Norm(SideWallX(v[1]) - s[1], v[1])

\* above the speed threshold, the ray crosses a side wall at a positive time
\* before it reaches the target line
SideWallCase(s, v, yt) ==
    /\ SpeedAboveThreshold(v[1], v[2])
    /\ v[1] # 0
    /\ DirectTime(s[2], v[2], yt) # None
    /\ RLt(R(0), SideWallTime(s, v))
    /\ RLt(SideWallTime(s, v), DirectTime(s[2], v[2], yt))

\* C11 (as stated): whenever the ray crosses a side wall before the target
\* line (however shortly before), the first
\* bounce found is at that wall (tag Left or Right, x on the wall), the
\* reflected direction is (-vx, vy), the target is where the reflected ray
\* from the wall point meets y = y_target (one reflection only, whatever
\* walls lie beyond), and time_until_impact = (t1 + t2) / FRAME_RATE, t2
\* being the time the code computes from the bounce point to the line.
C11_BounceCorrectness ==
    pc = "predicted" =>
        LET s  == smoothed_puck
            v  == Velocity(smoothed_puck, prev_smoothed_puck)
            t1 == SideWallTime(s, v)
            fb == compute_first_bounce(s[1], s[2], v[1], v[2], TABLE_W, TABLE_H)
            y_hit == RAdd(R(s[2]), RMul(t1, R(v[2])))
            t_rest == RSub(DirectTime(s[2], v[2], y_target), t1)
        IN  SideWallCase(s, v, y_target)
            => ( /\ fb # None
                 /\ fb[1] = t1 /\ fb[2] = R(SideWallX(v[1])) /\ fb[3] = y_hit
                 /\ fb[4] = SideWallTag(v[1])
                 /\ reflect_vector(v[1], v[2], fb[4]) = <<-v[1], v[2]>>
                 /\ x_target = RAdd(R(SideWallX(v[1])), RMul(R(-v[1]), t_rest))
                 /\ time_until_impact
                      = RDiv(RAdd(t1, AfterBounce(fb, v[1], v[2], y_target)[1]),
                             R(FRAME_RATE)) )


\* the x target of the velocity-based prediction as specified: one bounce
\* when a wall comes first, the direct intercept otherwise
VelocityTargetX(s, v, yt) ==
    LET fb == compute_first_bounce(s[1], s[2], v[1], v[2], TABLE_W, TABLE_H)
        t_direct == DirectTime(s[2], v[2], yt)
    IN  IF NeedBounce(fb, t_direct)
        THEN BounceBranch(fb, s[1], v[1], v[2], yt, t_direct).x
        ELSE IF t_direct # None /\ RLt(R(0), t_direct)
             THEN RAdd(R(s[1]), RMul(R(v[1]), t_direct))
             ELSE None

\* C12 (as stated): in a frame with puck and handle, the target is the
\* velocity-based prediction when the puck's speed exceeds VEL_THRESHOLD and
\* the handle-to-puck vector prediction when it does not.
C12_SecondObjectRule ==
    (pc = "predicted" /\ handle_present) =>
        LET v == Velocity(smoothed_puck, prev_smoothed_puck)
        IN  IF SpeedAboveThreshold(v[1], v[2])
            THEN x_target = VelocityTargetX(smoothed_puck, v, y_target)
            ELSE \E h \in PredictHandles :
                    x_target = HandleVectorPrediction(smoothed_puck, h, y_target).x


\* C13: a frame in which the puck is the only object, which ends with no
\* aggressive phase active and in which the puck's speed (displacement of
\* the smoothed position over the frame) is at most VEL_THRESHOLD, produces
\* no target and transmits no command.
C13_PuckOnlyIdle ==
    [][(FrameTaken /\ puck_present' /\ ~aggressive_mode_active')
        => LET v == Velocity(smoothed_puck', prev_smoothed_puck)
           IN  (v[1] * v[1] + v[2] * v[2] <= VEL_THRESHOLD * VEL_THRESHOLD)
               => ( /\ x_target' = None
                    /\ time_until_impact' = None
                    /\ command' = None
                    /\ written' = <<>> )]_vars

\* C13 witness: the first frame (velocity (0,0)) saw the puck alone, the
\* port is open, and nothing was targeted or sent
C13_IdleFrame ==
    /\ pc = "run"
    /\ now = 1
    /\ ser = "open"
    /\ puck_present
    /\ ~aggressive_mode_active
    /\ x_target = None
    /\ command = None
    /\ written = <<>>


\* the two trigger conditions of hit mode, for the state at the end of a
\* frame: time_until_impact below 0.4 s; tracked puck closer than 15 % of
\* the table height to the target line
ImpactSoon == time_until_impact # None /\ RLt(time_until_impact, <<2, 5>>)
PuckNearTargetLine ==
    /\ smoothed_puck # None
    /\ RLt(RAbs(RSub(R(smoothed_puck[2]), y_target)), Norm(15 * TABLE_H, 100))
\* the frame that has just ended entered or extended hit mode
HitTriggeredNow == hit_mode_active /\ hit_mode_start_time = now

\* C14 (as stated): a frame that produced a target (and sent it: the port is
\* open) enters or extends hit mode if and only if time_until_impact is
\* defined and below 0.4 s or the puck is vertically closer than 15 % of the
\* table height to the target line.
C14_HitTriggerCondition ==
    [][(FrameTaken /\ x_target' # None /\ command' # None)
        => (HitTriggeredNow' <=> (ImpactSoon' \/ PuckNearTargetLine'))]_vars

\* C15 (as stated): the proximity trigger applies whichever branch produced
\* the target: a frame with puck and handle that sends a command while the
\* puck is within 15 % of the table height of the target line enters or
\* extends hit mode.
C15_HitTriggerAnyBranch ==
    [][(FrameTaken /\ handle_present' /\ command' # None /\ PuckNearTargetLine')
        => HitTriggeredNow']_vars


\* C16: a command encoded while hit mode is active carries the y target
\* y_target + 0.05 * TABLE_H before normalisation and clamping, a command
\* encoded while hit mode is not active carries y_target itself; the scaled
\* y is that value normalised, clamped to [0,1] and scaled.
C16_HitBias ==
    (pc = "run" /\ command # None) =>
        /\ command.in_hit_mode = hit_mode_active
        /\ command.y = IF hit_mode_active
                       THEN RAdd(y_target, Norm(5 * TABLE_H, 100))
                       ELSE y_target
        /\ command.scaled_y
             = RTrunc(RMul(Clamp(RDiv(command.y, R(TABLE_H)), R(0), R(1)), R(SCALE_Y)))

\* C16 witness: a command was encoded in hit mode, 5 % of the table height
\* beyond the normal target line
C16_BiasedCommand ==
    /\ pc = "run"
    /\ command # None
    /\ hit_mode_active
    /\ y_target = y_target_normal
    /\ command.y = Norm(25 * TABLE_H, 100)


\* C17: a frame with no observation leaves the smoothed position and the
\* previous smoothed sample exactly as they were (hence any number of such
\* frames in a row does).
C17_OcclusionFreeze ==
    [][(FrameTaken /\ ~puck_present' /\ ~handle_present')
        => ( /\ smoothed_puck' = smoothed_puck
             /\ prev_smoothed_puck' = prev_smoothed_puck )]_vars

\* C17 witness: the puck has been tracked and the latest frame observed
\* nothing
C17_Occluded ==
    /\ pc = "run"
    /\ ~puck_present
    /\ ~handle_present
    /\ now >= 2
    /\ smoothed_puck # None
    /\ prev_smoothed_puck = smoothed_puck


\* ------------------------------------------------------------ the filter alone
\* the number of filter updates made when the filter is run alone
MaxUpdates == 3
\* the raw centroids fed to it (units of 1/3 px); an update is made only
\* with a raw value for which the smoothing is exact
RawGrid == {<<x, y>> : x \in {30, 130, 230}, y \in {50, 150, 250}}
FilterRaw(sm) ==
    IF sm = None THEN RawGrid
    ELSE {r \in RawGrid : SmoothExact(r[1], sm[1]) /\ SmoothExact(r[2], sm[2])}

\* the state of main_loop before the first frame; now counts the updates
FilterInit ==
    /\ pc = "filter"
    /\ ser = "open"
    /\ now = 0
    /\ smoothed_puck = None
    /\ prev_smoothed_puck = None
    /\ handle_present = FALSE
    /\ puck_present = FALSE
    /\ x_target = None
    /\ time_until_impact = None
    /\ y_target = y_target_normal
    /\ hit_mode_active = FALSE
    /\ hit_mode_start_time = 0
    /\ puck_in_robot_half = FALSE
    /\ puck_in_robot_half_start_time = 0
    /\ aggressive_mode_active = FALSE
    /\ aggressive_phase = 0
    /\ aggressive_phase_start_time = 0
    /\ last_strike_x_target = None
    /\ last_strike_y_target = None
    /\ puck_crossed_midline = FALSE
    /\ command = None
    /\ written = <<>>
    /\ filter_raw = None
    /\ filter_velocity = None
    /\ handle_raw = None
    /\ q_key = "none"

\* "Apply exponential smoothing to puck position", "Calculate puck velocity
\* from position history", "Store current position": one update with the
\* raw centroid puck_raw
FilterUpdate ==
    /\ pc = "filter"
    /\ now < MaxUpdates
    /\ \E puck_raw \in FilterRaw(smoothed_puck) :
       \E sm \in {Smooth(puck_raw, smoothed_puck)} :
          /\ filter_raw' = puck_raw
          /\ smoothed_puck' = sm
          /\ filter_velocity' = Velocity(sm, prev_smoothed_puck)
          /\ prev_smoothed_puck' = sm
    /\ now' = now + 1
    /\ puck_present' = TRUE
    /\ UNCHANGED <<pc, ser, handle_present, x_target, time_until_impact, y_target,
                   hit_mode_active, hit_mode_start_time, puck_in_robot_half,
                   puck_in_robot_half_start_time, aggressive_mode_active,
                   aggressive_phase, aggressive_phase_start_time,
                   last_strike_x_target, last_strike_y_target,
                   puck_crossed_midline, command, written, handle_raw, q_key>>

FilterNext == FilterUpdate

FilterSpec == FilterInit /\ [][FilterNext]_vars

\* C18: the first update sets smoothed = raw with velocity (0,0); every
\* later update sets smoothed' = 0.3 * raw + 0.7 * smoothed, coordinate by
\* coordinate, and velocity = smoothed' - smoothed, the displacement of the
\* smoothed position over that update.
C18_FilterUpdateRule ==
    [][(pc = "filter" /\ now' = now + 1) =>
        IF smoothed_puck = None
        THEN /\ smoothed_puck' = filter_raw'
             /\ filter_velocity' = <<0, 0>>
        ELSE /\ \A k \in {1, 2} :
                   ALPHA_DEN * smoothed_puck'[k]
                     = ALPHA_NUM * filter_raw'[k]
                       + (ALPHA_DEN - ALPHA_NUM) * smoothed_puck[k]
             /\ filter_velocity' = <<smoothed_puck'[1] - smoothed_puck[1],
                                     smoothed_puck'[2] - smoothed_puck[2]>>]_vars

\* C18 witness: after the first update at (10,50) px an update with raw
\* (43.3,50) px has moved the smoothed position to (20,50) px, velocity
\* (10,0) px per update
C18_SecondUpdate ==
    /\ pc = "filter"
    /\ now = 2
    /\ filter_raw = <<130, 150>>
    /\ smoothed_puck = <<60, 150>>
    /\ filter_velocity = <<30, 0>>

\* C19: every update of an initialised filter with raw input c multiplies
\* the offset of the smoothed position from c by exactly 1 - alpha = 0.7, in
\* each coordinate; so under a repeated input c the offset shrinks
\* geometrically, keeps its sign and never passes c.
C19_SmoothingConvergence ==
    [][(pc = "filter" /\ now' = now + 1 /\ smoothed_puck # None) =>
        \A k \in {1, 2} :
           LET before == smoothed_puck[k] - filter_raw'[k]
               after  == smoothed_puck'[k] - filter_raw'[k]
           IN  /\ ALPHA_DEN * after = (ALPHA_DEN - ALPHA_NUM) * before
               /\ Abs(after) <= Abs(before)
               /\ after * before >= 0]_vars

\* C19 witness: the raw input (43.3,50) px was fed twice in a row to a filter
\* at (10,50) px: the x offset went 100 -> 70 -> 49 units
C19_TwoEqualInputs ==
    /\ pc = "filter"
    /\ now = 3
    /\ filter_raw = <<130, 150>>
    /\ smoothed_puck = <<81, 150>>
    /\ filter_velocity = <<21, 0>>


\* C20: every transmitted command carries scaled coordinates with
\* 0 <= x <= 2857 and 0 <= y <= 4873, whatever the target, and is the
\* truncation of the clamped fraction times the scale.
C20_EncodedRange ==
    (pc \in {"run", "sent"} /\ command # None) =>
        /\ command.scaled_x \in 0..SCALE_X
        /\ command.scaled_y \in 0..SCALE_Y
        /\ command.scaled_x
             = RTrunc(RMul(Clamp(RDiv(command.x, R(TABLE_W)), R(0), R(1)), R(SCALE_X)))

\* C20 witness: a command was sent for a predicted target outside the table
C20_TargetOutsideTable ==
    /\ pc = "sent"
    /\ command # None
    /\ written # <<>>
    /\ (RLt(command.x, R(0)) \/ RLt(R(TABLE_W), command.x))
    /\ command.scaled_x \in {0, SCALE_X}


\* ------------------------------------------------------------ the encoder alone
\* the targets (units of 1/3 px) for which the encoder is evaluated on its
\* own: x_target and y_target on, inside and outside the table edges
EncodeXs == {-30, 0, 75, 150, 225, 300, 330}
EncodeYs == {-15, 0, 60, 135, 150, 285, 300, 330}

\* a frame that has a target and an open port, at the point where the
\* command is encoded: hit mode already decided
EncodeInit ==
    /\ pc = "encode"
    /\ ser = "open"
    /\ now = 0
    /\ smoothed_puck = None
    /\ prev_smoothed_puck = None
    /\ handle_present = FALSE
    /\ puck_present = FALSE
    /\ x_target \in {R(x) : x \in EncodeXs}
    /\ time_until_impact = None
    /\ y_target \in {R(y) : y \in EncodeYs}
    /\ hit_mode_active \in BOOLEAN
    /\ hit_mode_start_time = 0
    /\ puck_in_robot_half = FALSE
    /\ puck_in_robot_half_start_time = 0
    /\ aggressive_mode_active = FALSE
    /\ aggressive_phase = 0
    /\ aggressive_phase_start_time = 0
    /\ last_strike_x_target = None
    /\ last_strike_y_target = None
    /\ puck_crossed_midline = FALSE
    /\ command = None
    /\ written = <<>>
    /\ filter_raw = None
    /\ filter_velocity = None
    /\ handle_raw = None
    /\ q_key = "none"

\* "in_hit_mode = hit_mode_active" to the end of the byte loop: offset,
\* percentages, clamp, scaling, message, and the writes, of which the port
\* accepts k bytes
EncodeSend ==
    /\ pc = "encode"
    /\ \E cmd \in {Encode(Context([x |-> x_target, tui |-> time_until_impact]))} :
       \E k \in WriteOutcomes :
          /\ command' = cmd
          /\ written' = SubSeq(cmd.msg, 1, k)
    /\ pc' = "encoded"
    /\ UNCHANGED <<ser, now, smoothed_puck, prev_smoothed_puck, handle_present,
                   puck_present, x_target, time_until_impact, y_target,
                   hit_mode_active, hit_mode_start_time, puck_in_robot_half,
                   puck_in_robot_half_start_time, aggressive_mode_active,
                   aggressive_phase, aggressive_phase_start_time,
                   last_strike_x_target, last_strike_y_target,
                   puck_crossed_midline, filter_raw, filter_velocity, handle_raw, q_key>>

EncodeNext == EncodeSend

EncodeSpec == EncodeInit /\ [][EncodeNext]_vars

\* the target of an encoded command, before normalisation, is the point
\* (x, y) in units
CommandTargets(x, y) ==
    command # None /\ command.x = R(x) /\ command.y = R(y)

\* C21 (as stated): target (0,0) encodes to (0,0), target (W,H) to
\* (2857, 4873), and the table centre (W/2, H/2) to the midpoint of the
\* scaled range on each axis, 2857/2 and 4873/2.
C21_EncodingEndPoints ==
    /\ CommandTargets(0, 0) => (command.scaled_x = 0 /\ command.scaled_y = 0)
    /\ CommandTargets(TABLE_W, TABLE_H)
          => (command.scaled_x = SCALE_X /\ command.scaled_y = SCALE_Y)
    /\ CommandTargets(TABLE_W \div 2, TABLE_H \div 2)
          => (2 * command.scaled_x = SCALE_X /\ 2 * command.scaled_y = SCALE_Y)

\* C21 (amended): target (0,0) encodes to (0,0), target (W,H) to
\* (2857, 4873), and the table centre to the midpoint of the scaled range
\* truncated to an integer on each axis: (1428, 2436).
C21_EncodingEndPointsTruncated ==
    /\ CommandTargets(0, 0) => (command.scaled_x = 0 /\ command.scaled_y = 0)
    /\ CommandTargets(TABLE_W, TABLE_H)
          => (command.scaled_x = SCALE_X /\ command.scaled_y = SCALE_Y)
    /\ CommandTargets(TABLE_W \div 2, TABLE_H \div 2)
          => ( /\ command.scaled_x = SCALE_X \div 2
               /\ command.scaled_y = SCALE_Y \div 2
               /\ command.scaled_x = 1428 /\ command.scaled_y = 2436 )

\* C21 witness: the table centre has been encoded, outside hit mode
C21_CentreEncoded ==
    /\ pc = "encoded"
    /\ ~hit_mode_active
    /\ CommandTargets(TABLE_W \div 2, TABLE_H \div 2)
    /\ command.msg = <<"M", 1, 4, 2, 8, 2, 4, 3, 6, "\r", "\n">>


\* m is the fixed-width frame for the scaled coordinates sx, sy: 'M', four
\* decimal digits of sx, four decimal digits of sy, CR, LF
WireFrame(m, sx, sy) ==
    /\ Len(m) = 11
    /\ m[1] = "M"
    /\ \A i \in 2..9 : m[i] \in 0..9
    /\ 1000 * m[2] + 100 * m[3] + 10 * m[4] + m[5] = sx
    /\ 1000 * m[6] + 100 * m[7] + 10 * m[8] + m[9] = sy
    /\ m[10] = "\r"
    /\ m[11] = "\n"

\* the frame that has just ended has a target and the port is open
TargetAndPort == x_target # None /\ ser = "open"

WriteFailed == command # None /\ Len(written) < Len(command.msg)

\* C23: a frame whose serial write raised ends like any other frame: the
\* loop is still running, the port is still held open, and the next frame
\* can be processed; and when the port could not be opened at startup the
\* loop runs all the same and no frame formats or transmits anything.
C23_TransportFailuresNonFatal ==
    /\ WriteFailed =>
          /\ pc = "run"
          /\ ser = "open"
          /\ now < MaxTime => ENABLED Frame
    /\ ser = "none" =>
          /\ pc \in {"run", "done"}
          /\ command = None
          /\ written = <<>>
          /\ (pc = "run" /\ now < MaxTime) => ENABLED Frame

\* C23 witness: the write of the latest frame failed after 5 bytes and the
\* loop is running
C23_WriteFailedLoopRuns ==
    /\ pc = "run"
    /\ ser = "open"
    /\ WriteFailed
    /\ Len(written) = 5
    /\ now < MaxTime


\* the latest iteration read a frame in which nothing was observed
NothingObserved == now > 0 /\ ~puck_present /\ ~handle_present

\* C24: a frame with zero observations ends with no target, no
\* time_until_impact, no command formatted and nothing transmitted, whatever
\* the mode and the earlier frames; it raises no error (the loop is still
\* running) and the next frame can be processed.
C24_NoDetection ==
    (pc \in {"run", "crashed"} /\ NothingObserved) =>
        /\ pc = "run"
        /\ x_target = None
        /\ time_until_impact = None
        /\ command = None
        /\ written = <<>>
        /\ now < MaxTime => ENABLED Frame

\* C24 witness: aggressive mode is active, the port is open, and the latest
\* frame observed nothing and sent nothing
C24_EmptyFrameWhileAggressive ==
    /\ pc = "run"
    /\ ser = "open"
    /\ NothingObserved
    /\ aggressive_mode_active
    /\ smoothed_puck # None
    /\ x_target = None
    /\ command = None


\* the velocity-based prediction of the two-object branch is the one that
\* set the target: speed above the threshold and a bounce needed
VelocityPredictionUsed(s, v, yt) ==
    /\ SpeedAboveThreshold(v[1], v[2])
    /\ NeedBounce(compute_first_bounce(s[1], s[2], v[1], v[2], TABLE_W, TABLE_H),
                  DirectTime(s[2], v[2], yt))

\* C25 (as stated): a frame whose prediction direction has a vertical
\* component of at most 1e-3 produces no target: the puck velocity in a
\* frame with the puck alone, and in a frame with puck and handle the
\* handle-to-puck vector wherever the velocity prediction did not set the
\* target.
C25_DegenerateGeometry ==
    pc = "predicted" =>
        LET s == smoothed_puck
            v == Velocity(smoothed_puck, prev_smoothed_puck)
        IN  /\ (puck_present /\ ~AboveEps(v[2])) => x_target = None
            /\ ( /\ handle_present
                 /\ ~VelocityPredictionUsed(s, v, y_target)
                 /\ ~AboveEps(s[2] - handle_raw[2]) )
               => x_target = None


\* C26 (as stated): whenever main_loop has returned, by the stop key or by
\* a startup failure, a serial connection that was opened has been closed.
C26_CleanShutdown ==
    pc = "done" => ser # "open"


\* ------------------------------------------------------------ the stop key
\* In Spec the key is pressed within the iteration that reads it (Quit).
\* Here the press and the read are separate steps: the press waits in the
\* event queue until an iteration reaches cv2.waitKey.
PressQ ==
    /\ pc = "run"
    /\ q_key = "none"
    /\ q_key' = "pressed"
    /\ UNCHANGED <<pc, ser, loop_vars_no_key>>

\* an iteration that reads a frame and then finds no key in the queue
StopFrame ==
    /\ q_key = "none"
    /\ Frame

\* an iteration that reads a frame and then reads the key: "break", cleanup
StopSeen ==
    /\ pc = "run"
    /\ q_key # "none"
    /\ pc' = "done"
    /\ ser' = IF ser = "open" THEN "closed" ELSE ser
    /\ Locals(0)
    /\ q_key' = "none"

\* an iteration in which cap.read() fails: "continue", cv2.waitKey is not
\* reached and a pressed key stays in the queue
StopDropped ==
    /\ pc = "run"
    /\ q_key' = IF q_key = "none" THEN "none" ELSE "overdue"
    /\ UNCHANGED <<pc, ser, loop_vars_no_key>>

StopNext == Startup \/ PressQ \/ StopFrame \/ StopSeen \/ StopDropped

StopSpec == Init /\ [][StopNext]_vars

\* C27 (as stated): the key is read in every iteration, so the loop never
\* ends an iteration, running, with a key that was pressed before the
\* iteration began still unread - also when frame capture fails.
C27_StopCheckedEveryIteration ==
    pc = "run" => q_key # "overdue"


\* the first wall crossing and the direct intercept time of the puck's ray
\* in the frame that has just been predicted
FirstBounceNow ==
    LET v == Velocity(smoothed_puck, prev_smoothed_puck)
    IN  compute_first_bounce(smoothed_puck[1], smoothed_puck[2], v[1], v[2],
                             TABLE_W, TABLE_H)
DirectTimeNow ==
    DirectTime(smoothed_puck[2], Velocity(smoothed_puck, prev_smoothed_puck)[2],
               y_target)
\* the wall is reached strictly before the target line
WallFirst ==
    /\ FirstBounceNow # None
    /\ DirectTimeNow # None
    /\ RLt(R(0), FirstBounceNow[1])
    /\ RLt(FirstBounceNow[1], DirectTimeNow)
\* the target and time of the bounce code for that ray
BounceResultNow ==
    LET v == Velocity(smoothed_puck, prev_smoothed_puck)
    IN  BounceBranch(FirstBounceNow, smoothed_puck[1], v[1], v[2], y_target,
                     DirectTimeNow)

\* C28: with the puck's speed above the threshold, the bounce code sets
\* the frame's target if and only if a first wall crossing exists, t_direct
\* is defined and 0 < t_bounce < t_direct; otherwise (t_bounce = t_direct,
\* t_direct undefined, t_direct <= 0, no crossing) the bounce is not used:
\* with the puck alone there is no target, with puck and handle the target
\* is that of the handle-to-puck vector.
C28_BounceNeededTest ==
    LET v == Velocity(smoothed_puck, prev_smoothed_puck)
    IN  (pc = "predicted" /\ SpeedAboveThreshold(v[1], v[2])) =>
           IF WallFirst
           THEN /\ x_target = BounceResultNow.x
                /\ time_until_impact = BounceResultNow.tui
           ELSE /\ time_until_impact = None
                /\ puck_present => x_target = None
                /\ handle_present =>
                      x_target
                        = HandleVectorPrediction(smoothed_puck, handle_raw, y_target).x

\* C28 witness: the puck alone at (10,50) px moving by (-3.3,-10) px per
\* frame reaches the left wall exactly on the target line (t_bounce =
\* t_direct = 3): no bounce, no target
C28_WallAtTargetLine ==
    /\ pc = "predicted"
    /\ puck_present
    /\ smoothed_puck = <<30, 150>>
    /\ prev_smoothed_puck = <<40, 180>>
    /\ FirstBounceNow # None
    /\ FirstBounceNow[1] = DirectTimeNow
    /\ x_target = None


\* the post-bounce intercept time t2 of the puck's ray is undefined or <= 0
SecondLegFails ==
    LET v == Velocity(smoothed_puck, prev_smoothed_puck)
        t2 == AfterBounce(FirstBounceNow, v[1], v[2], y_target)[1]
    IN  t2 = None \/ RLe(t2, R(0))

\* the same for the handle-to-puck vector: its bounce is used and its t2 is
\* undefined or <= 0
HandleVectorSecondLegFails ==
    LET vx_hp == smoothed_puck[1] - handle_raw[1]
        vy_hp == smoothed_puck[2] - handle_raw[2]
        fb == compute_first_bounce(smoothed_puck[1], smoothed_puck[2], vx_hp, vy_hp,
                                   TABLE_W, TABLE_H)
    IN  /\ NeedBounce(fb, DirectTime(smoothed_puck[2], vy_hp, y_target))
        /\ LET t2 == AfterBounce(fb, vx_hp, vy_hp, y_target)[1]
           IN  t2 = None \/ RLe(t2, R(0))

\* C29 (as stated): when a bounce is used and the post-bounce intercept
\* time t2 is undefined or <= 0, the frame has no target: in the velocity
\* prediction of a frame with the puck alone or with puck and handle, and in
\* the handle-to-puck vector prediction.
C29_FailedPostBounceIntercept ==
    LET v == Velocity(smoothed_puck, prev_smoothed_puck)
    IN  (pc = "predicted" /\ SpeedAboveThreshold(v[1], v[2])) =>
           /\ (WallFirst /\ SecondLegFails) => x_target = None
           /\ (handle_present /\ ~WallFirst /\ HandleVectorSecondLegFails)
                 => x_target = None


\* the four walls in the order compute_first_bounce examines them
WallOrder == <<"left", "right", "top", "bottom">>
\* the ray from s with direction v moves toward wall w
MovesToward(w, v) ==
    IF w = "left" THEN v[1] < 0
    ELSE IF w = "right" THEN v[1] > 0
    ELSE IF w = "top" THEN v[2] < 0
    ELSE v[2] > 0
\* the time at which it meets the line of wall w (MovesToward(w, v))
WallTime(w, s, v) ==
    IF w = "left" THEN Norm(0 - s[1], v[1])
    ELSE IF w = "right" THEN Norm(TABLE_W - s[1], v[1])
    ELSE IF w = "top" THEN Norm(0 - s[2], v[2])
    ELSE Norm(TABLE_H - s[2], v[2])
\* where the ray is at time t
RayPoint(s, v, t) == <<RAdd(R(s[1]), RMul(t, R(v[1]))), RAdd(R(s[2]), RMul(t, R(v[2])))>>
\* the point p lies on wall w, within the table on the other axis
OnWall(w, p) ==
    IF w \in {"left", "right"}
    THEN /\ p[1] = (IF w = "left" THEN R(0) ELSE R(TABLE_W))
         /\ RLe(R(0), p[2]) /\ RLe(p[2], R(TABLE_H))
    ELSE /\ p[2] = (IF w = "top" THEN R(0) ELSE R(TABLE_H))
         /\ RLe(R(0), p[1]) /\ RLe(p[1], R(TABLE_W))
\* the crossing of wall w is accepted
Accepted(w, s, v) ==
    /\ MovesToward(w, v)
    /\ RLt(EPS6, WallTime(w, s, v))
    /\ OnWall(w, RayPoint(s, v, WallTime(w, s, v)))

\* C30: for the ray of the predicted frame, compute_first_bounce returns no
\* bounce when no wall crossing is accepted (ray toward the wall, positive
\* time, other coordinate within the table); otherwise it returns an
\* accepted crossing (t, point, wall) of smallest t, the first in the order
\* Left, Right, Top, Bottom among those of equal t; the point is where the
\* ray is at time t and lies on the table boundary.
C30_FirstWallCrossing ==
    pc = "predicted" =>
        LET s   == smoothed_puck
            v   == Velocity(smoothed_puck, prev_smoothed_puck)
            fb  == FirstBounceNow
            acc == {i \in 1..4 : Accepted(WallOrder[i], s, v)}
        IN  IF acc = {} THEN fb = None
            ELSE /\ fb # None
                 /\ RLt(R(0), fb[1])
                 /\ \E i \in acc :
                       /\ fb[4] = WallOrder[i]
                       /\ fb[1] = WallTime(WallOrder[i], s, v)
                       /\ \A j \in acc :
                             /\ RLe(fb[1], WallTime(WallOrder[j], s, v))
                             /\ WallTime(WallOrder[j], s, v) = fb[1] => i <= j
                 /\ <<fb[2], fb[3]>> = RayPoint(s, v, fb[1])
                 /\ OnWall(fb[4], <<fb[2], fb[3]>>)

\* C30 witness: the ray from (50,50) px along (-10,-10) px per frame meets
\* the left and the top wall together in the corner (0,0) at t = 5; the
\* crossing returned is the left one
C30_CornerCrossing ==
    /\ pc = "predicted"
    /\ smoothed_puck = <<150, 150>>
    /\ prev_smoothed_puck = <<180, 180>>
    /\ Accepted("left", smoothed_puck, <<-30, -30>>)
    /\ Accepted("top", smoothed_puck, <<-30, -30>>)
    /\ FirstBounceNow = <<R(5), R(0), R(0), "left">>


\* ------------------------------------------------------------ the strike phase
\* The mode machine from the positioning phase on, for a puck that rests on
\* one of a few table points or moves between them. Aggressive mode was
\* activated at time 2 after a dwell that began at time 0; since then frames
\* with the handle in view, which run the filter and not the machine, let
\* the filter settle on the point (on a resting puck the filtered position
\* is within the 1e-3 px of the override's length guard after some 35
\* frames), and the last frame saw nothing.

\* frames are read while the clock is below StrikeMaxTime: the follow-through
\* timeout and the frame after it are within reach
StrikeMaxTime == 17

StrikePositions ==
    {<<150, 300>>, <<150, 297>>, <<150, 150>>, <<30, 141>>, <<21, 99>>}

StrikeRaw(sm) ==
    {r \in {RawFor(g, sm) : g \in StrikePositions} :
        /\ InTable(r)
        /\ SmoothExact(r[1], sm[1]) /\ SmoothExact(r[2], sm[2])
        /\ Smooth(r, sm) \in StrikePositions}

StrikeInit ==
    /\ pc = "run"
    /\ ser \in {"open", "none"}
    /\ now = 2
    /\ smoothed_puck \in StrikePositions
    /\ prev_smoothed_puck = smoothed_puck
    /\ handle_present = FALSE
    /\ puck_present = FALSE
    /\ x_target = None
    /\ time_until_impact = None
    /\ y_target = y_target_normal
    /\ hit_mode_active = FALSE
    /\ hit_mode_start_time = 0
    /\ puck_in_robot_half = TRUE
    /\ puck_in_robot_half_start_time = 0
    /\ aggressive_mode_active = TRUE
    /\ aggressive_phase = 1
    /\ aggressive_phase_start_time = 2
    /\ last_strike_x_target = None
    /\ last_strike_y_target = None
    /\ puck_crossed_midline = FALSE
    /\ command = None
    /\ written = <<>>
    /\ filter_raw = None
    /\ filter_velocity = None
    /\ handle_raw = None
    /\ q_key = "none"

\* one iteration of the loop on nothing or on the puck alone
StrikeFrame ==
    /\ pc = "run"
    /\ \E obs \in {NoObservation} \cup {OneObject(r) : r \in StrikeRaw(smoothed_puck)} :
       \E d \in {Detect(obs, smoothed_puck, prev_smoothed_puck, y_target)} :
       \E dt \in DtSet :
          /\ now < StrikeMaxTime
          /\ \E c \in {Decide(obs, d[1], d[2], now + dt)} :
             \E cmd \in {IF Sends(c) THEN Encode(c) ELSE None} :
             \E k \in IF cmd # None THEN WriteOutcomes ELSE {0} :
                FrameStep(now + dt, obs, d[1], c, cmd, k)

StrikeNext == StrikeFrame

StrikeSpec == StrikeInit /\ [][StrikeNext]_vars

C32_ActiveIffPhase ==
    /\ aggressive_phase \in 0..3
    /\ aggressive_mode_active <=> aggressive_phase \in {1, 2, 3}
    /\ ~aggressive_mode_active <=> aggressive_phase = 0
    /\ pc = "start" => /\ aggressive_phase = 0
                       /\ ~hit_mode_active
                       /\ ~puck_in_robot_half
                       /\ mode_text = "Predict"

\* C32 witness: the machine has gone through the phases and left them
C32_BackInPhaseZero ==
    /\ pc = "run"
    /\ aggressive_phase = 0
    /\ ~aggressive_mode_active
    /\ last_strike_x_target # None

\* C33: y_target differs from the normal target line only in phase 3; in
\* phases 0, 1 and 2 it is the normal line.
C33_TargetLineOutsideFollow ==
    /\ aggressive_phase \in {0, 1, 2} => y_target = y_target_normal
    /\ y_target # y_target_normal => aggressive_phase = 3

\* C33 witness: follow-through moved the line to the strike line and the
\* exit, here by the puck crossing the half-line, put it back
C33_LineRestored ==
    /\ pc = "run"
    /\ aggressive_phase = 0
    /\ puck_crossed_midline
    /\ last_strike_y_target # None
    /\ last_strike_y_target # y_target_normal
    /\ y_target = y_target_normal


\* a step that is one iteration of the loop with a frame read, whether the
\* iteration ends normally or in an uncaught exception
FrameProcessed == pc = "run" /\ pc' \in {"run", "crashed"} /\ now' > now

\* C34: over a frame the phase stays or moves one step along the cycle
\* 0 -> 1 -> 2 -> 3 -> 0; no phase is skipped, none goes backwards, and no
\* frame makes two changes (the frame of the activation ends in phase 1, the
\* frame that enters phase 3 ends in phase 3).
C34_PhaseCycle ==
    [][FrameProcessed =>
        /\ aggressive_phase' \in {aggressive_phase, (aggressive_phase + 1) % 4}
        /\ (~aggressive_mode_active /\ aggressive_mode_active')
              => aggressive_phase' = 1
        /\ (aggressive_phase = 2 /\ aggressive_phase' # 2)
              => aggressive_phase' = 3 /\ aggressive_mode_active']_vars

\* C34 witness: the frame that has just entered follow-through
C34_EnteredFollow ==
    /\ pc = "run"
    /\ aggressive_phase = 3
    /\ aggressive_phase_start_time = now
    /\ aggressive_mode_active


\* the variables of the aggressive-mode context
AggressiveContext ==
    <<puck_in_robot_half, puck_in_robot_half_start_time, aggressive_mode_active,
      aggressive_phase, aggressive_phase_start_time, puck_crossed_midline,
      last_strike_x_target, last_strike_y_target, y_target>>

GoalVectorLong(s) ==
    RLt(<<9, 1000000>>,
        RAdd(RMul(RSub(Norm(TABLE_W, 2), R(s[1])), RSub(Norm(TABLE_W, 2), R(s[1]))),
             RMul(RSub(R(TABLE_H), R(s[2])), RSub(R(TABLE_H), R(s[2])))))

C37_NoDwellResetOnExit ==
    [][FrameProcessed =>
        /\ (aggressive_phase = 3 /\ aggressive_phase' = 0) =>
              /\ puck_in_robot_half' = SolePuckInRobotHalf'
              /\ puck_in_robot_half_start_time' =
                    IF puck_in_robot_half' /\ ~puck_in_robot_half
                    THEN now' ELSE puck_in_robot_half_start_time
        /\ ( /\ aggressive_phase = 0
             /\ puck_in_robot_half
             /\ now' - puck_in_robot_half_start_time > PUCK_IN_ROBOT_HALF_THRESHOLD
             /\ SolePuckInRobotHalf' ) =>
              /\ aggressive_mode_active'
              /\ aggressive_phase' = 1
              /\ aggressive_phase_start_time' = now'
              /\ puck_in_robot_half'
              /\ puck_in_robot_half_start_time' = puck_in_robot_half_start_time]_vars

\* C37 witness: follow-through ended by timeout with the puck in the
\* robot's half all along (the dwell that began at time 0 was never
\* interrupted), and a later frame has entered the positioning phase anew
C37_ReenteredAfterTimeout ==
    /\ pc = "run"
    /\ aggressive_phase = 1
    /\ aggressive_phase_start_time = now
    /\ now > 2 + PHASE1_DURATION + FOLLOW_THROUGH_TIMEOUT
    /\ puck_in_robot_half
    /\ puck_in_robot_half_start_time = 0
    /\ ~puck_crossed_midline
    /\ last_strike_x_target # None


\* C38: with the puck on the table and the target line within [0, H], a
\* first crossing at the top or bottom wall is never reached strictly before
\* the target line, so whenever the bounce is used the wall is the left or
\* the right one: the reflection negates vx alone, and a bounce target is
\* the point the ray (-vx, vy) from the offset bounce point reaches on the
\* target line.
C38_BounceOnSideWallsOnly ==
    LET v  == Velocity(smoothed_puck, prev_smoothed_puck)
        fb == FirstBounceNow
    IN  ( /\ pc = "predicted"
          /\ InTable(smoothed_puck)
          /\ RLe(R(0), y_target) /\ RLe(y_target, R(TABLE_H)) ) =>
           /\ (fb # None /\ fb[4] \in {"top", "bottom"}) => ~WallFirst
           /\ WallFirst =>
                 /\ fb[4] \in {"left", "right"}
                 /\ reflect_vector(v[1], v[2], fb[4]) = <<-v[1], v[2]>>
                 /\ LET y1 == RAdd(fb[3], RMul(R(v[2]), EPS3))
                        t2 == RDiv(RSub(y_target, y1), R(v[2]))
                    IN  (SpeedAboveThreshold(v[1], v[2]) /\ RLt(R(0), t2)) =>
                           x_target = RAdd(RAdd(fb[2], RMul(R(-v[1]), EPS3)),
                                           RMul(R(-v[1]), t2))

\* C38 witness: the bounce is used and gives the target, while the ray, had
\* it gone on, would have met the top wall as well
C38_SideWallBounceUsed ==
    /\ pc = "predicted"
    /\ puck_present
    /\ WallFirst
    /\ FirstBounceNow[4] = "left"
    /\ Velocity(smoothed_puck, prev_smoothed_puck)[2] < 0
    /\ x_target # None
    /\ x_target = BounceResultNow.x
    /\ RLt(R(0), x_target)

\* the first wall the ray meets is the top wall, and the bounce is not used
C38_TopWallNotUsed ==
    /\ pc = "predicted"
    /\ FirstBounceNow # None
    /\ FirstBounceNow[4] = "top"
    /\ DirectTimeNow # None
    /\ RLt(R(0), DirectTimeNow)
    /\ ~WallFirst

=============================================================================
